---- MODULE Spec2Model ----
(***************************************************************************)
(* Model of the FedRAMP marketplace scraper (src/src/main.rs).             *)
(*                                                                         *)
(* A string is modelled as a sequence of tokens.  A token is one of the    *)
(* six label prefixes, a whitespace character, or a non-whitespace         *)
(* character.  Every label ends with its only ':' character, so two label  *)
(* occurrences in a text never overlap and str::contains / str::split on a *)
(* label act on whole tokens.                                              *)
(*                                                                         *)
(* Spec        : the runner, main(), one step per awaited browser call     *)
(*               or file operation.                                        *)
(* SpecExtract : get_authorization_details(), one step per awaited call,   *)
(*               run on every page within MaxPageCost.                     *)
(***************************************************************************)
EXTENDS Naturals, Sequences, FiniteSets

VARIABLES
    pc,         \* position of main()
    inputFile,  \* the file named by --input: [exists, lines]
    session,    \* the WebDriver session: "none" | "open" | "closed"
    closeCount, \* number of successful close_window() calls
    ids,        \* Vec<String> collected at main.rs:132
    i,          \* number of completed iterations of the for loop
    wtr,        \* csv::Writer over the output File: [buf, file]
    exit,       \* "running" | "zero" | "nonzero"
    cause,      \* which `?` ended main() with Err
    gotos,      \* per identifier index: driver.goto() calls made
    refreshes,  \* per identifier index: driver.refresh() calls made
    extracts,   \* per identifier index: get_authorization_details() calls
    navFailed,  \* identifier indexes whose goto() returned Err
    xpc,        \* position of get_authorization_details()
    details,    \* the AuthorizationDetails being filled
    para,       \* result of the last p.text() of the paragraph loop
    pcost,      \* size of the page read so far (1 + tokens per paragraph)
    xerr        \* the Err returned by get_authorization_details()

vars == <<pc, inputFile, session, closeCount, ids, i, wtr, exit, cause,
          gotos, refreshes, extracts, navFailed,
          xpc, details, para, pcost, xerr>>

runVars == <<pc, inputFile, session, closeCount, ids, i, wtr, exit, cause,
             gotos, refreshes, extracts, navFailed>>

xVars == <<xpc, details, para, pcost, xerr>>

(***************************************************************************)
(* Bounds                                                                  *)
(***************************************************************************)
MaxLines == 3
MaxPageCost == 6

(***************************************************************************)
(* Strings                                                                 *)
(***************************************************************************)
Labels == { "Independent Assessor:", "FedRAMP Ready:",
            "Authorizing Entity Review:", "PMO Review:",
            "FedRAMP Authorized:", "Annual Assessment:" }

Whitespace == {" "}

Alphabet == Labels \cup Whitespace \cup {"x"}

Texts(n) == UNION { [1..k -> Alphabet] : k \in 0..n }

EmptyStr == << >>

\* str::contains(label)
Contains(text, prefix) == \E k \in 1..Len(text) : text[k] = prefix

\* str::split(prefix), collected: the pieces between the occurrences
RECURSIVE SplitFrom(_, _, _, _)
SplitFrom(text, prefix, k, piece) ==
    IF k > Len(text) THEN << piece >>
    ELSE IF text[k] = prefix
         THEN << piece >> \o SplitFrom(text, prefix, k + 1, EmptyStr)
         ELSE SplitFrom(text, prefix, k + 1, Append(piece, text[k]))

Split(text, prefix) == SplitFrom(text, prefix, 1, EmptyStr)

RECURSIVE TrimStart(_)
TrimStart(s) ==
    IF s # EmptyStr /\ Head(s) \in Whitespace THEN TrimStart(Tail(s)) ELSE s

RECURSIVE TrimEnd(_)
TrimEnd(s) ==
    IF s # EmptyStr /\ s[Len(s)] \in Whitespace
    THEN TrimEnd(SubSeq(s, 1, Len(s) - 1)) ELSE s

\* str::trim
Trim(s) == TrimEnd(TrimStart(s))

(***************************************************************************)
(* Option<String>                                                          *)
(***************************************************************************)
None == [some |-> FALSE, val |-> EmptyStr]

Some(s) == [some |-> TRUE, val |-> s]

\* Option::unwrap_or_default
UnwrapOrDefault(o) == IF o.some THEN o.val ELSE EmptyStr

\* Iterator::nth(1) on the split pieces
Nth1(pieces) == IF Len(pieces) >= 2 THEN Some(pieces[2]) ELSE None

\* the closure extract_value
extract_value(text, prefix) ==
    LET o == Nth1(Split(text, prefix))
        t == IF o.some THEN Some(Trim(o.val)) ELSE None
    IN  IF t.some /\ t.val # EmptyStr THEN t ELSE None

(***************************************************************************)
(* get_authorization_details                                               *)
(***************************************************************************)
\* the struct literal of main.rs:83-91
InitDetails(id) ==
    [ id |-> id,
      fedramp_ready |-> None,
      authorizing_entity_review |-> None,
      pmo_review |-> None,
      fedramp_authorized |-> None,
      annual_assessment |-> None,
      independent_assessor |-> None ]

\* the order in which the if / else-if chain tests the labels
LabelOrder == << "Independent Assessor:", "FedRAMP Ready:",
                 "Authorizing Entity Review:", "PMO Review:",
                 "FedRAMP Authorized:", "Annual Assessment:" >>

\* the field each branch of the chain assigns
FieldOf(label) ==
    CASE label = "Independent Assessor:"      -> "independent_assessor"
      [] label = "FedRAMP Ready:"             -> "fedramp_ready"
      [] label = "Authorizing Entity Review:" -> "authorizing_entity_review"
      [] label = "PMO Review:"                -> "pmo_review"
      [] label = "FedRAMP Authorized:"        -> "fedramp_authorized"
      [] label = "Annual Assessment:"         -> "annual_assessment"

\* p.text().await : Ok(text) or Err
TextOk(t) == [ok |-> TRUE, text |-> t]

TextErr == [ok |-> FALSE, text |-> EmptyStr]

\* a variant of the loop body with independent `if`s instead of `else if`
ApplyParagraphEveryLabel(d, p) ==
    IF ~p.ok THEN d
    ELSE [ f \in DOMAIN d |->
             IF \E l \in Labels : FieldOf(l) = f /\ Contains(p.text, l)
             THEN extract_value(p.text, CHOOSE l \in Labels : FieldOf(l) = f)
             ELSE d[f] ]

\* one iteration of `for p in paragraphs`
ApplyParagraph(d, p) ==
    IF ~p.ok THEN d
    ELSE IF Contains(p.text, "Independent Assessor:")
    THEN [d EXCEPT !.independent_assessor =
                       extract_value(p.text, "Independent Assessor:")]
    ELSE IF Contains(p.text, "FedRAMP Ready:")
    THEN [d EXCEPT !.fedramp_ready = extract_value(p.text, "FedRAMP Ready:")]
    ELSE IF Contains(p.text, "Authorizing Entity Review:")
    THEN [d EXCEPT !.authorizing_entity_review =
                       extract_value(p.text, "Authorizing Entity Review:")]
    ELSE IF Contains(p.text, "PMO Review:")
    THEN [d EXCEPT !.pmo_review = extract_value(p.text, "PMO Review:")]
    ELSE IF Contains(p.text, "FedRAMP Authorized:")
    THEN [d EXCEPT !.fedramp_authorized =
                       extract_value(p.text, "FedRAMP Authorized:")]
    ELSE IF Contains(p.text, "Annual Assessment:")
    THEN [d EXCEPT !.annual_assessment =
                       extract_value(p.text, "Annual Assessment:")]
    ELSE d

\* the whole loop `for p in paragraphs`
RECURSIVE ScanParagraphs(_, _)
ScanParagraphs(d, paras) ==
    IF paras = << >> THEN d
    ELSE ScanParagraphs(ApplyParagraph(d, Head(paras)), Tail(paras))

\* Display text of the errors get_authorization_details returns
ErrNoSuchElement == << "NoSuchElement" >>

ErrWebDriver == << "WebDriverError" >>

ErrNoParagraphs == << "No paragraphs found" >>

ResultOk(d) == [ok |-> TRUE, details |-> d, err |-> EmptyStr]

ResultErr(e) == [ok |-> FALSE, details |-> InitDetails(""), err |-> e]

\* get_authorization_details(driver, id) on the page the browser shows:
\* dom.status is the outcome of the two element queries, dom.paras the
\* <p> elements of the container with the outcome of each text() call
GetAuthorizationDetails(dom, id) ==
    IF dom.status = "no_container" THEN ResultErr(ErrNoSuchElement)
    ELSE IF dom.status = "find_error" THEN ResultErr(ErrWebDriver)
    ELSE IF dom.paras = << >> THEN ResultErr(ErrNoParagraphs)
    ELSE ResultOk(ScanParagraphs(InitDetails(id), dom.paras))

(***************************************************************************)
(* Input file and output sink                                              *)
(***************************************************************************)
Idents == {"P1", "P2"}

\* one item of io::Lines: Ok(line) or Err (e.g. a line that is not UTF-8)
LineOk(s) == [ok |-> TRUE, val |-> s]

LineErr == [ok |-> FALSE, val |-> ""]

Line == { LineOk(s) : s \in Idents } \cup { LineErr }

Files == { [exists |-> FALSE, lines |-> << >>] } \cup
         { [exists |-> TRUE, lines |-> ls] :
             ls \in UNION { [1..n -> Line] : n \in 0..MaxLines } }

\* .map_while(Result::ok).collect()
RECURSIVE MapWhileOk(_)
MapWhileOk(lines) ==
    IF lines = << >> \/ ~Head(lines).ok THEN << >>
    ELSE << Head(lines).val >> \o MapWhileOk(Tail(lines))

Cell(s) == << s >>

Header == << Cell("ID"), Cell("FedRAMP Ready"),
             Cell("Authorizing Entity Review"), Cell("PMO Review"),
             Cell("FedRAMP Authorized"), Cell("Annual Assessment"),
             Cell("Independent Assessor") >>

\* a variant of the navigation-failure row with the marker of the other branch
NavErrorRowOtherMarker(id) ==
    << Cell(id), Cell("Error: ") \o Cell("Navigation failed"),
       EmptyStr, EmptyStr, EmptyStr, EmptyStr, EmptyStr >>

\* the record of main.rs:151
NavErrorRow(id) ==
    << Cell(id), Cell("Error - Navigation failed"),
       EmptyStr, EmptyStr, EmptyStr, EmptyStr, EmptyStr >>

\* the record of main.rs:172
ExtractErrorRow(id, e) ==
    << Cell(id), Cell("Error: ") \o e,
       EmptyStr, EmptyStr, EmptyStr, EmptyStr, EmptyStr >>

\* the record of main.rs:159-167
DetailsRow(d) ==
    << Cell(d.id),
       UnwrapOrDefault(d.fedramp_ready),
       UnwrapOrDefault(d.authorizing_entity_review),
       UnwrapOrDefault(d.pmo_review),
       UnwrapOrDefault(d.fedramp_authorized),
       UnwrapOrDefault(d.annual_assessment),
       UnwrapOrDefault(d.independent_assessor) >>

\* the row the match of main.rs:157-174 writes
ResultRow(id, r) ==
    IF r.ok THEN DetailsRow(r.details) ELSE ExtractErrorRow(id, r.err)

\* Writer::from_writer(File::create(..)): nothing buffered, file truncated
NewWriter == [buf |-> << >>, file |-> << >>]

\* Writer::write_record: the record goes to the writer's buffer
WriteRecord(w, row) == [w EXCEPT !.buf = Append(@, row)]

\* a flush that leaves the buffer where it is
FlushNothing(w) == w

\* Writer::flush: the buffer is written to the file
Flush(w) == [buf |-> << >>, file |-> w.file \o w.buf]

\* the writer goes out of scope when main returns: csv::Writer's Drop
\* flushes what is still buffered
DropWriter(w) == Flush(w)

\* pages the browser shows to the runner
SampleDoms ==
    { [status |-> "no_container", paras |-> << >>],
      [status |-> "find_error", paras |-> << >>],
      [status |-> "ok", paras |-> << >>],
      [status |-> "ok",
       paras |-> << TextOk(<< "FedRAMP Ready:", " ", "x" >>) >>],
      [status |-> "ok",
       paras |-> << TextOk(<< "PMO Review:", "x" >>), TextErr,
                    TextOk(<< "x" >>),
                    TextOk(<< "Independent Assessor:", "x", " " >>) >>] }

(***************************************************************************)
(* main                                                                    *)
(***************************************************************************)
Zeros(n) == [k \in 1..n |-> 0]

\* the identifier of the iteration in progress
CurId == ids[i + 1]

\* a `?` returns Err from main: the process ends with a non-zero status
Abort(c) ==
    /\ pc' = "failed"
    /\ exit' = "nonzero"
    /\ cause' = c

Init ==
    /\ pc = "start"
    /\ inputFile \in Files
    /\ session = "none"
    /\ closeCount = 0
    /\ ids = << >>
    /\ i = 0
    /\ wtr = NewWriter
    /\ exit = "running"
    /\ cause = "none"
    /\ gotos = << >>
    /\ refreshes = << >>
    /\ extracts = << >>
    /\ navFailed = {}
    /\ xpc = "idle"
    /\ details = InitDetails("")
    /\ para = TextErr
    /\ pcost = 0
    /\ xerr = EmptyStr

\* main.rs:130, WebDriver::new succeeds
NewDriverOk ==
    /\ pc = "start"
    /\ session' = "open"
    /\ pc' = "read"
    /\ UNCHANGED <<inputFile, closeCount, ids, i, wtr, exit, cause,
                   gotos, refreshes, extracts, navFailed>>
    /\ UNCHANGED xVars

\* main.rs:130, the endpoint cannot be reached
NewDriverErr ==
    /\ pc = "start"
    /\ Abort("driver")
    /\ UNCHANGED <<inputFile, session, closeCount, ids, i, wtr,
                   gotos, refreshes, extracts, navFailed>>
    /\ UNCHANGED xVars

\* main.rs:132, the file opens and its lines are collected
ReadLinesOk ==
    /\ pc = "read"
    /\ inputFile.exists
    /\ ids' = MapWhileOk(inputFile.lines)
    /\ gotos' = Zeros(Len(ids'))
    /\ refreshes' = Zeros(Len(ids'))
    /\ extracts' = Zeros(Len(ids'))
    /\ pc' = "create"
    /\ UNCHANGED <<inputFile, session, closeCount, i, wtr, exit, cause,
                   navFailed>>
    /\ UNCHANGED xVars

\* main.rs:132, File::open fails
ReadLinesErr ==
    /\ pc = "read"
    /\ ~inputFile.exists
    /\ Abort("input")
    /\ UNCHANGED <<inputFile, session, closeCount, ids, i, wtr,
                   gotos, refreshes, extracts, navFailed>>
    /\ UNCHANGED xVars

\* main.rs:135-144, the output file is created and the header buffered
CreateOutputOk ==
    /\ pc = "create"
    /\ wtr' = WriteRecord(NewWriter, Header)
    /\ pc' = "loop"
    /\ UNCHANGED <<inputFile, session, closeCount, ids, i, exit, cause,
                   gotos, refreshes, extracts, navFailed>>
    /\ UNCHANGED xVars

\* main.rs:135, File::create fails
CreateOutputErr ==
    /\ pc = "create"
    /\ Abort("output")
    /\ UNCHANGED <<inputFile, session, closeCount, ids, i, wtr,
                   gotos, refreshes, extracts, navFailed>>
    /\ UNCHANGED xVars

\* main.rs:149, driver.goto succeeds
GotoOk ==
    /\ pc = "loop"
    /\ i < Len(ids)
    /\ gotos' = [gotos EXCEPT ![i + 1] = @ + 1]
    /\ pc' = "refresh"
    /\ UNCHANGED <<inputFile, session, closeCount, ids, i, wtr, exit, cause,
                   refreshes, extracts, navFailed>>
    /\ UNCHANGED xVars

\* main.rs:149, driver.goto returns Err
GotoErr ==
    /\ pc = "loop"
    /\ i < Len(ids)
    /\ gotos' = [gotos EXCEPT ![i + 1] = @ + 1]
    /\ navFailed' = navFailed \cup {i + 1}
    /\ pc' = "nav_err"
    /\ UNCHANGED <<inputFile, session, closeCount, ids, i, wtr, exit, cause,
                   refreshes, extracts>>
    /\ UNCHANGED xVars

\* main.rs:150-153, the placeholder row is written and flushed; continue
NavErrorWritten ==
    /\ pc = "nav_err"
    /\ wtr' = Flush(WriteRecord(wtr, NavErrorRow(CurId)))
    /\ i' = i + 1
    /\ pc' = "loop"
    /\ UNCHANGED <<inputFile, session, closeCount, ids, exit, cause,
                   gotos, refreshes, extracts, navFailed>>
    /\ UNCHANGED xVars

\* main.rs:151-152, the sink returns an I/O error
NavErrorSinkErr ==
    /\ pc = "nav_err"
    /\ wtr' = WriteRecord(wtr, NavErrorRow(CurId))
    /\ Abort("sink")
    /\ UNCHANGED <<inputFile, session, closeCount, ids, i,
                   gotos, refreshes, extracts, navFailed>>
    /\ UNCHANGED xVars

\* main.rs:156, driver.refresh succeeds
RefreshOk ==
    /\ pc = "refresh"
    /\ refreshes' = [refreshes EXCEPT ![i + 1] = @ + 1]
    /\ pc' = "extract"
    /\ UNCHANGED <<inputFile, session, closeCount, ids, i, wtr, exit, cause,
                   gotos, extracts, navFailed>>
    /\ UNCHANGED xVars

\* main.rs:156, driver.refresh returns Err and `?` returns it from main
RefreshErr ==
    /\ pc = "refresh"
    /\ refreshes' = [refreshes EXCEPT ![i + 1] = @ + 1]
    /\ Abort("reload")
    /\ wtr' = DropWriter(wtr)
    /\ UNCHANGED <<inputFile, session, closeCount, ids, i,
                   gotos, extracts, navFailed>>
    /\ UNCHANGED xVars

\* main.rs:157-175, extraction, the row of its result, flush
ExtractWritten ==
    /\ pc = "extract"
    /\ \E dom \in SampleDoms :
         wtr' = Flush(WriteRecord(wtr,
                   ResultRow(CurId, GetAuthorizationDetails(dom, CurId))))
    /\ extracts' = [extracts EXCEPT ![i + 1] = @ + 1]
    /\ i' = i + 1
    /\ pc' = "loop"
    /\ UNCHANGED <<inputFile, session, closeCount, ids, exit, cause,
                   gotos, refreshes, navFailed>>
    /\ UNCHANGED xVars

\* main.rs:159-175, the sink returns an I/O error
ExtractSinkErr ==
    /\ pc = "extract"
    /\ \E dom \in SampleDoms :
         wtr' = WriteRecord(wtr,
                   ResultRow(CurId, GetAuthorizationDetails(dom, CurId)))
    /\ extracts' = [extracts EXCEPT ![i + 1] = @ + 1]
    /\ Abort("sink")
    /\ UNCHANGED <<inputFile, session, closeCount, ids, i,
                   gotos, refreshes, navFailed>>
    /\ UNCHANGED xVars

\* main.rs:178-180, the window is closed and main returns Ok
CloseWindowOk ==
    /\ pc = "loop"
    /\ i = Len(ids)
    /\ session' = "closed"
    /\ closeCount' = closeCount + 1
    /\ pc' = "done"
    /\ exit' = "zero"
    /\ wtr' = DropWriter(wtr)
    /\ UNCHANGED <<inputFile, ids, i, cause,
                   gotos, refreshes, extracts, navFailed>>
    /\ UNCHANGED xVars

\* main.rs:178, driver.close_window returns Err
CloseWindowErr ==
    /\ pc = "loop"
    /\ i = Len(ids)
    /\ Abort("close")
    /\ wtr' = DropWriter(wtr)
    /\ UNCHANGED <<inputFile, session, closeCount, ids, i,
                   gotos, refreshes, extracts, navFailed>>
    /\ UNCHANGED xVars

Next ==
    \/ NewDriverOk
    \/ NewDriverErr
    \/ ReadLinesOk
    \/ ReadLinesErr
    \/ CreateOutputOk
    \/ CreateOutputErr
    \/ GotoOk
    \/ GotoErr
    \/ NavErrorWritten
    \/ NavErrorSinkErr
    \/ RefreshOk
    \/ RefreshErr
    \/ ExtractWritten
    \/ ExtractSinkErr
    \/ CloseWindowOk
    \/ CloseWindowErr

Spec == Init /\ [][Next]_vars

(***************************************************************************)
(* get_authorization_details, step by step                                 *)
(***************************************************************************)
InitExtract ==
    /\ pc = "extract"
    /\ inputFile = [exists |-> TRUE, lines |-> << LineOk("P1") >>]
    /\ session = "open"
    /\ closeCount = 0
    /\ ids = << "P1" >>
    /\ i = 0
    /\ wtr = WriteRecord(NewWriter, Header)
    /\ exit = "running"
    /\ cause = "none"
    /\ gotos = << 1 >>
    /\ refreshes = << 1 >>
    /\ extracts = << 1 >>
    /\ navFailed = {}
    /\ xpc = "query"
    /\ details = InitDetails(CurId)
    /\ para = TextErr
    /\ pcost = 0
    /\ xerr = EmptyStr

\* main.rs:71-76, the container is found
QueryOk ==
    /\ xpc = "query"
    /\ xpc' = "find"
    /\ UNCHANGED <<details, para, pcost, xerr>>
    /\ UNCHANGED runVars

\* main.rs:71-76, no container: `?` returns the error
QueryErr ==
    /\ xpc = "query"
    /\ xpc' = "err"
    /\ xerr' = ErrNoSuchElement
    /\ UNCHANGED <<details, para, pcost>>
    /\ UNCHANGED runVars

\* main.rs:78, find_all fails
FindAllErr ==
    /\ xpc = "find"
    /\ xpc' = "err"
    /\ xerr' = ErrWebDriver
    /\ UNCHANGED <<details, para, pcost>>
    /\ UNCHANGED runVars

\* main.rs:78-81, the container has no <p>
FindAllEmpty ==
    /\ xpc = "find"
    /\ xpc' = "err"
    /\ xerr' = ErrNoParagraphs
    /\ UNCHANGED <<details, para, pcost>>
    /\ UNCHANGED runVars

\* main.rs:78-91, at least one <p>: the record is created
FindAllSome ==
    /\ xpc = "find"
    /\ xpc' = "loop"
    /\ details' = InitDetails(CurId)
    /\ UNCHANGED <<para, pcost, xerr>>
    /\ UNCHANGED runVars

\* main.rs:101-120, one paragraph: its text is read and the chain applied
ReadParagraph ==
    /\ xpc = "loop"
    /\ pcost < MaxPageCost
    /\ \E p \in { TextOk(t) : t \in Texts(MaxPageCost - pcost - 1) }
                \cup { TextErr } :
         /\ para' = p
         /\ details' = ApplyParagraph(details, p)
         /\ pcost' = pcost + 1 + Len(p.text)
    /\ UNCHANGED <<xpc, xerr>>
    /\ UNCHANGED runVars

\* main.rs:122, the paragraphs are exhausted
ReturnDetails ==
    /\ xpc = "loop"
    /\ pcost > 0
    /\ xpc' = "ok"
    /\ UNCHANGED <<details, para, pcost, xerr>>
    /\ UNCHANGED runVars

NextExtract ==
    \/ QueryOk
    \/ QueryErr
    \/ FindAllErr
    \/ FindAllEmpty
    \/ FindAllSome
    \/ ReadParagraph
    \/ ReturnDetails

SpecExtract == InitExtract /\ [][NextExtract]_vars

(***************************************************************************)
(* Properties                                                              *)
(***************************************************************************)
\* main got past startup and has ended, and the output sink did not fail
EndedPastStartup ==
    /\ exit # "running"
    /\ cause \notin {"driver", "input", "output", "sink"}

\* the lines of the file that could be read, in file order
RECURSIVE ReadableLines(_)
ReadableLines(lines) ==
    IF lines = << >> THEN << >>
    ELSE IF Head(lines).ok
         THEN << Head(lines).val >> \o ReadableLines(Tail(lines))
         ELSE ReadableLines(Tail(lines))

HasLabel(text) == \E l \in Labels : Contains(text, l)

\* the label of highest priority among those the text contains
FirstLabel(text) ==
    LabelOrder[CHOOSE n \in 1..Len(LabelOrder) :
                 /\ Contains(text, LabelOrder[n])
                 /\ \A m \in 1..(n - 1) : ~Contains(text, LabelOrder[m])]

\* everything after the first occurrence of the label
AfterFirst(text, label) ==
    LET k == CHOOSE n \in 1..Len(text) :
                 /\ text[n] = label
                 /\ \A m \in 1..(n - 1) : text[m] # label
    IN  SubSeq(text, k + 1, Len(text))

\* a step of the paragraph loop
IsParagraphStep == xpc = "loop" /\ pcost' # pcost

\* C1: when a run that got past startup ends, the output holds one data row
\* per identifier read from the input
RowCountAtEnd ==
    EndedPastStartup => Len(wtr.file) = Len(ids) + 1

\* C2: between two iterations, after identifier k, the flushed file is the
\* header followed by k data rows, row j carrying identifier j, and nothing
\* is left in the writer's buffer
FlushedAfterEach ==
    (pc = "loop" /\ i >= 1) =>
        /\ wtr.buf = << >>
        /\ Len(wtr.file) = i + 1
        /\ wtr.file[1] = Header
        /\ \A j \in 1..i : wtr.file[j + 1][1] = << ids[j] >>

FlushedAfterEachWitness ==
    /\ pc = "loop"
    /\ i = 2
    /\ ids[1] # ids[2]
    /\ 1 \in navFailed
    /\ 2 \notin navFailed
    /\ Len(wtr.file) = 3

\* C3: past startup the process always exits with status zero after all
\* identifiers were processed; only the three startup failures give a
\* non-zero exit
ExitZeroPastStartup ==
    /\ exit = "nonzero" => cause \in {"driver", "input", "output"}
    /\ exit = "zero" => i = Len(ids)

\* C4: a session that was opened is closed exactly once when the process
\* ends, and never before every identifier was processed
SessionClosedOnce ==
    /\ (exit # "running" /\ session # "none") =>
           (session = "closed" /\ closeCount = 1)
    /\ closeCount > 0 => i = Len(ids)

\* C5: when the input file cannot be opened no browser session was started
NoSessionOnInputFailure ==
    cause = "input" => session = "none"

\* C6: the identifier sequence is the sequence of all readable lines of the
\* file, in file order
IdsAreReadableLines ==
    pc \in {"create", "loop", "nav_err", "refresh", "extract", "done"} =>
        ids = ReadableLines(inputFile.lines)

\* C7: an identifier whose navigation failed gets exactly the row
\* [id, "Error - Navigation failed", "", "", "", "", ""], is navigated to
\* once, is never reloaded or extracted, and the loop goes on to the next
\* identifier: after a failed navigation main stops only if the output sink
\* itself returns an error
NavFailureRow ==
    \A k \in navFailed :
        /\ gotos[k] = 1
        /\ refreshes[k] = 0
        /\ extracts[k] = 0
        /\ k <= i =>
             /\ Len(wtr.file) > k
             /\ wtr.file[k + 1] = << << ids[k] >>,
                                     << "Error - Navigation failed" >>,
                                     << >>, << >>, << >>, << >>, << >> >>
        /\ k = i + 1 =>
             \/ pc = "nav_err"
             \/ pc = "failed" /\ cause = "sink"

NavFailureRowWitness ==
    /\ 1 \in navFailed
    /\ i >= 1
    /\ Len(ids) >= 2
    /\ gotos[2] = 1
    /\ wtr.file[2][2] = << "Error - Navigation failed" >>

\* C8: a paragraph changes at most the field of the first label, in the
\* fixed order, that it contains, and leaves the other five fields alone; a
\* paragraph without a label, or one whose text cannot be read, changes
\* nothing
FirstMatchOnly ==
    [][ IsParagraphStep =>
          IF para'.ok /\ HasLabel(para'.text)
          THEN \A f \in DOMAIN details :
                   f # FieldOf(FirstLabel(para'.text)) =>
                       details'[f] = details[f]
          ELSE details' = details ]_vars

FirstMatchOnlyWitness ==
    /\ xpc = "loop"
    /\ para.ok
    /\ para.text = << "Independent Assessor:", "FedRAMP Ready:", "x" >>
    /\ details.independent_assessor = Some(<< "FedRAMP Ready:", "x" >>)
    /\ details.fedramp_ready = None

\* C9: the value stored for the first matching label is everything after
\* the first occurrence of the label, trimmed, later occurrences included
ValueAfterFirstOccurrence ==
    (xpc \in {"loop", "ok"} /\ para.ok /\ HasLabel(para.text)) =>
        LET l == FirstLabel(para.text)
            v == Trim(AfterFirst(para.text, l))
        IN  details[FieldOf(l)] = IF v = EmptyStr THEN None ELSE Some(v)

\* C10: a matching paragraph whose value is empty after trimming leaves the
\* record as it was, so a value stored by an earlier paragraph is kept
EmptyValueNoEffect ==
    [][ ( /\ IsParagraphStep
          /\ para'.ok
          /\ HasLabel(para'.text)
          /\ Trim(AfterFirst(para'.text, FirstLabel(para'.text))) = EmptyStr )
        => details' = details ]_vars

====
